---- MODULE Spec2Model ----
(***************************************************************************)
(* Model of app.py, the EU Ecolabel dashboard: the cached loader           *)
(* load_data, and one execution of the script per render cycle (sidebar    *)
(* selection, filter, KPIs, aggregation views).                            *)
(*                                                                         *)
(* A table (DataFrame) is a record [cols, rows]: the set of its column     *)
(* names and the sequence of its rows, each row a function from the        *)
(* column names to cell values.  Missing text cells are NaN, a missing     *)
(* date is NaT and a missing year is YearNaN.                              *)
(*                                                                         *)
(* The construction of the plotly figures and the sample table of lines    *)
(* 320-327 are presentation and are left out.                              *)
(***************************************************************************)
EXTENDS Integers, Sequences, FiniteSets, TLC

VARIABLES
    file,               \* what is on disk at file_path
    cache,              \* the st.cache_data entry of load_data(file_path)
    reads,              \* number of pd.read_csv calls made so far
    source,             \* the file as it was when pd.read_csv read it
    served,             \* whether the last answer of load_data matched the file on disk
    load_messages,      \* st.* diagnostics emitted by the body of load_data
    df_original,        \* script global df_original
    selection,          \* selected_countries, selected_groups, selected_years
    df_filtered,        \* script global df_filtered
    kpis,               \* the four st.metric values
    views,              \* the aggregation views handed to plotly
    page_messages,      \* st.warning / st.info emitted by the script body
    status              \* how the last execution of the script ended

vars == <<file, cache, reads, source, served, load_messages, df_original, selection,
          df_filtered, kpis, views, page_messages, status>>

----------------------------------------------------------------------------
(* Bounds of the model *)

MaxRows == 2

----------------------------------------------------------------------------
(* Cell values *)

NaN == "NaN"
NaT == [y |-> 0, m |-> 0, d |-> 0, tz |-> "NaT"]
YearNaN == -1

UKLong == "United Kingdom of Great Britain and Northern Ireland"
UKShort == "United Kingdom"

RawCols == {"licence_number", "company_name", "company_country", "group_name",
            "product_or_service", "product_or_service_name", "expiration_date"}

required_cols == {"licence_number", "company_name", "company_country",
                  "group_name", "expiration_year", "product_or_service"}

category_cols == {"product_or_service", "group_name", "company_country", "code_type"}

EmptyTable == [cols |-> {}, rows |-> <<>>]

Unset == [unset |-> TRUE]

NotCached == [cached |-> FALSE]

IsEmpty(df) == df.cols = {} \/ df.rows = <<>>

RowSet(df) == {df.rows[i] : i \in 1..Len(df.rows)}

----------------------------------------------------------------------------
(* Input files *)

Licences == {"L1", "L2"}
Countries == {"France", UKLong}
Groups == {"Paper", "Tourism"}
NaiveTexts == {"01/02/2020", "1/2/2020", "unknown", ""}
OffsetTexts == {"2020-10-25 02:00 +0200", "2020-10-25 04:00 +0100"}

CompanyOf(l) == IF l = "L1" THEN "Acme" ELSE "Bolt"
KindOf(g) == IF g = "Paper" THEN "Product" ELSE "Service"
ExpiryOf(l) == IF l = "L1" THEN "01/02/2020" ELSE "01/02/2021"

RawRow(l, c, g, d) ==
    [licence_number |-> l, company_name |-> CompanyOf(l), company_country |-> c,
     group_name |-> g, product_or_service |-> KindOf(g),
     product_or_service_name |-> "Notebook", expiration_date |-> d]

SeqsUpTo(S, n) == UNION {[1..k -> S] : k \in 0..n}

Project(rows, cols) == [i \in 1..Len(rows) |-> [c \in cols |-> rows[i][c]]]

Csv(cols, rows) == [kind |-> "csv", cols |-> cols, rows |-> Project(rows, cols)]

NoFile == [kind |-> "absent"]
Unreadable == [kind |-> "unreadable"]

\* Files whose rows vary in licence (and with it company and year of
\* expiration), country and group.
RenderFiles ==
    {Csv(RawCols, rows) : rows \in SeqsUpTo(
        {RawRow(l, c, g, ExpiryOf(l)) : l \in Licences, c \in Countries, g \in Groups},
        MaxRows)}

\* Files with rows whose company_country field is empty.
MissingFiles ==
    {Csv(RawCols, rows) : rows \in SeqsUpTo(
        {RawRow(l, c, "Paper", ExpiryOf(l)) : l \in Licences, c \in {"France", ""}},
        MaxRows)}

\* Files whose rows vary in the text of the expiration date.
DateFiles ==
    {Csv(RawCols, rows) : rows \in
        SeqsUpTo({RawRow("L1", "France", "Paper", d) : d \in NaiveTexts}, MaxRows)
        \cup SeqsUpTo({RawRow("L1", "France", "Paper", d) : d \in OffsetTexts}, MaxRows)}

\* Files that lack one column.
ShortFiles ==
    {Csv(RawCols \ {c}, rows) :
        c \in {"licence_number", "group_name", "expiration_date"},
        rows \in SeqsUpTo({RawRow("L1", "France", "Paper", d) : d \in {"01/02/2020", "unknown"}}, MaxRows)}

Files == RenderFiles \cup MissingFiles \cup DateFiles \cup ShortFiles \cup {NoFile, Unreadable}

\* What the file is rewritten to while the program runs.
Rewritten == Csv(RawCols, <<RawRow("L2", "France", "Tourism", ExpiryOf("L2"))>>)

----------------------------------------------------------------------------
(* load_data *)

Msg(level, text, n) == [level |-> level, text |-> text, n |-> n]

MsgDuplicates(n) == Msg("info", "Removed duplicate rows.", n)
MsgInvalidDates(n) == Msg("warning", "Removed rows with invalid expiration dates.", n)
MsgYearFailed == Msg("error", "Failed to process expiration dates correctly. Cannot extract year.", 0)
MsgMissingCols == Msg("error", "Data loading failed. Missing required columns.", 0)
MsgNotFound == Msg("error", "Error: Data file not found", 0)
MsgException == Msg("error", "An error occurred during data loading or cleaning", 0)

\* The rows at the indices in idx, in their order.
Keep(rows, idx) ==
    LET F[i \in 0..Len(rows)] ==
            IF i = 0 THEN <<>>
            ELSE IF i \in idx THEN Append(F[i - 1], rows[i]) ELSE F[i - 1]
    IN  F[Len(rows)]

\* pd.read_csv(file_path, sep=';'): an empty field is read as NaN.
ReadCell(text) == IF text = "" THEN NaN ELSE text

read_csv(f) ==
    [cols |-> f.cols,
     rows |-> [i \in 1..Len(f.rows) |-> [c \in f.cols |-> ReadCell(f.rows[i][c])]]]

\* df.drop_duplicates(inplace=True): the first of each run of equal rows stays.
drop_duplicates(rows) ==
    Keep(rows, {i \in 1..Len(rows) : \A j \in 1..(i - 1) : rows[j] # rows[i]})

\* pd.to_datetime(..., errors='coerce') on one cell.
ParseDate(v) ==
    CASE v = "01/02/2020" -> [y |-> 2020, m |-> 1, d |-> 2, tz |-> "naive"]
      [] v = "1/2/2020" -> [y |-> 2020, m |-> 1, d |-> 2, tz |-> "naive"]
      [] v = "01/02/2021" -> [y |-> 2021, m |-> 1, d |-> 2, tz |-> "naive"]
      [] v = "2020-10-25 02:00 +0200" -> [y |-> 2020, m |-> 10, d |-> 25, tz |-> "+0200"]
      [] v = "2020-10-25 04:00 +0100" -> [y |-> 2020, m |-> 10, d |-> 25, tz |-> "+0100"]
      [] OTHER -> NaT

to_datetime(rows) ==
    [i \in 1..Len(rows) |->
        [rows[i] EXCEPT !["expiration_date"] = ParseDate(rows[i]["expiration_date"])]]

\* Cells with different UTC offsets do not fit one datetime64 column.
MixedOffsets(rows) ==
    Cardinality({rows[i]["expiration_date"].tz : i \in 1..Len(rows)} \ {"NaT"}) > 1

\* What pd.to_datetime does with mixed offsets depends on the installed pandas:
\* an object column of datetime objects, or a ValueError.
DatetimeOutcomes(rows) == IF MixedOffsets(rows) THEN {"object", "raise"} ELSE {"datetime64"}

dropna(rows) == Keep(rows, {i \in 1..Len(rows) : rows[i]["expiration_date"] # NaT})

nat_count(rows) == Cardinality({i \in 1..Len(rows) : rows[i]["expiration_date"] = NaT})

WithColumn(row, col, v) == [c \in (DOMAIN row) \cup {col} |-> IF c = col THEN v ELSE row[c]]

\* Step 4: df['expiration_date'].dt.year.astype(int), or np.nan in the else branch.
expiration_year(row, dtype) ==
    IF dtype = "datetime64" THEN row["expiration_date"].y ELSE YearNaN

add_expiration_year(rows, dtype) ==
    [i \in 1..Len(rows) |-> WithColumn(rows[i], "expiration_year", expiration_year(rows[i], dtype))]

\* Step 6: the check for required columns.
has_required_cols(cols) == required_cols \subseteq cols

\* Mutant: an except clause that returns without st.error.
Failure_silent(msg) == [df |-> EmptyTable, msgs |-> {}]

Failure(msg) == [df |-> EmptyTable, msgs |-> {msg}]

\* The body of load_data for the file f; dtype is the outcome of
\* pd.to_datetime, one of DatetimeOutcomes.  The result is the returned
\* frame and the diagnostics emitted on the way.
clean(f, dtype) ==
    LET raw == read_csv(f)
        deduped == drop_duplicates(raw.rows)
        removed == Len(raw.rows) - Len(deduped)
        m1 == IF removed > 0 THEN {MsgDuplicates(removed)} ELSE {}
        parsed == to_datetime(deduped)
        nats == nat_count(parsed)
        m2 == IF nats > 0 THEN {MsgInvalidDates(nats)} ELSE {}
        kept == IF nats > 0 THEN dropna(parsed) ELSE parsed
        m3 == IF dtype = "datetime64" THEN {} ELSE {MsgYearFailed}
        cols == raw.cols \cup {"expiration_year"}
    IN  IF has_required_cols(cols)
        THEN [df |-> [cols |-> cols, rows |-> add_expiration_year(kept, dtype)],
              msgs |-> m1 \cup m2 \cup m3]
        ELSE [df |-> EmptyTable, msgs |-> m1 \cup m2 \cup m3 \cup {MsgMissingCols}]

load_data(f, dtype) ==
    IF f.kind = "absent" THEN Failure(MsgNotFound)
    ELSE IF f.kind = "unreadable" THEN Failure(MsgException)
    ELSE IF "expiration_date" \notin f.cols
    THEN LET raw == read_csv(f)
             removed == Len(raw.rows) - Len(drop_duplicates(raw.rows))
         IN  [df |-> EmptyTable,
              msgs |-> (IF removed > 0 THEN {MsgDuplicates(removed)} ELSE {}) \cup {MsgException}]
    ELSE IF dtype = "raise"
    THEN LET raw == read_csv(f)
             removed == Len(raw.rows) - Len(drop_duplicates(raw.rows))
         IN  [df |-> EmptyTable,
              msgs |-> (IF removed > 0 THEN {MsgDuplicates(removed)} ELSE {}) \cup {MsgException}]
    ELSE clean(f, dtype)

\* The outcomes pd.to_datetime can have on the file f.
LoadOutcomes(f) ==
    IF f.kind = "csv" /\ "expiration_date" \in f.cols
    THEN DatetimeOutcomes(to_datetime(drop_duplicates(read_csv(f).rows)))
    ELSE {"datetime64"}

----------------------------------------------------------------------------
(* Sidebar filters *)

Values(df, col) == {df.rows[i][col] : i \in 1..Len(df.rows)}

\* .cat.categories of a column converted with astype('category'): the
\* values that occur in it, NaN left out.
categories(df, col) == Values(df, col) \ {NaN}

SetMin(S) == CHOOSE x \in S : \A y \in S : x <= y
SetMax(S) == CHOOSE x \in S : \A y \in S : x >= y

\* df_original['expiration_year'].min() and .max() skip NaN.
Years(df) == Values(df, "expiration_year") \ {YearNaN}

Selection(cs, gs, lo, hi) == [countries |-> cs, groups |-> gs, years |-> <<lo, hi>>]

\* The widgets' defaults: nothing selected, the full range of years.
DefaultSelection(df) == Selection({}, {}, SetMin(Years(df)), SetMax(Years(df)))

YearRanges(df) ==
    {yy \in (SetMin(Years(df))..SetMax(Years(df))) \X (SetMin(Years(df))..SetMax(Years(df))) :
        yy[1] <= yy[2]}

\* What the user can select: options of the two multiselects, and a range
\* of the slider between min_year and max_year.
Selections(df) ==
    {Selection(cs, gs, yy[1], yy[2]) :
        cs \in SUBSET categories(df, "company_country"),
        gs \in SUBSET categories(df, "group_name"),
        yy \in YearRanges(df)}

----------------------------------------------------------------------------
(* Filter *)

\* Series.isin(values): NaN is in no selection of options.
isin(v, values) == v # NaN /\ v \in values

\* Mutant: the upper bound of the year range excluded.
mask_exclusive(row, sel) ==
    /\ (IF sel.countries # {} THEN isin(row["company_country"], sel.countries) ELSE TRUE)
    /\ (IF sel.groups # {} THEN isin(row["group_name"], sel.groups) ELSE TRUE)
    /\ row["expiration_year"] >= sel.years[1]
    /\ row["expiration_year"] < sel.years[2]

\* The boolean mask of lines 103-108 on one row.
mask(row, sel) ==
    /\ (IF sel.countries # {} THEN isin(row["company_country"], sel.countries) ELSE TRUE)
    /\ (IF sel.groups # {} THEN isin(row["group_name"], sel.groups) ELSE TRUE)
    /\ row["expiration_year"] >= sel.years[1]
    /\ row["expiration_year"] <= sel.years[2]

\* Mutant: the country name replaced in the rows of the frame itself.
filter_data_renamed(df, sel) ==
    [cols |-> df.cols,
     rows |-> LET kept == Keep(df.rows, {i \in 1..Len(df.rows) : mask(df.rows[i], sel)})
              IN  [i \in 1..Len(kept) |->
                      [kept[i] EXCEPT !["company_country"] = IF @ = UKLong THEN UKShort ELSE @]]]

\* df_original[mask].copy()
filter_data(df, sel) ==
    [cols |-> df.cols,
     rows |-> Keep(df.rows, {i \in 1..Len(df.rows) : mask(df.rows[i], sel)})]

----------------------------------------------------------------------------
(* KPIs and aggregation views *)

TopGroups == 15
TopCross == 10

Where(df, col, v) == Keep(df.rows, {i \in 1..Len(df.rows) : df.rows[i][col] = v})

SeqValues(rows, col) == {rows[i][col] : i \in 1..Len(rows)}

\* Mutant: count() in place of nunique(), the number of rows.
count_rows(rows, col) == Len(rows)

\* Series.nunique(): the number of distinct values, NaN not counted.
nunique(rows, col) == Cardinality(SeqValues(rows, col) \ {NaN})

\* df.groupby(col)['licence_number'].nunique().reset_index(): one entry per
\* key that occurs; rows whose key is missing (na) are in no group.
groupby_nunique(df, col, na) ==
    {[key |-> k, count |-> nunique(Where(df, col, k), "licence_number")] :
        k \in Values(df, col) \ {na}}

\* sort_values('Unique Licenses', ascending=False).head(n): n entries that
\* no entry left out exceeds; the order among equal counts is not fixed.
head_sorted(view, n) ==
    IF Cardinality(view) <= n THEN view
    ELSE CHOOSE top \in SUBSET view :
            /\ Cardinality(top) = n
            /\ \A e \in top, o \in view \ top : e.count >= o.count

\* Lines 155-157: the replacement of the long country name in the view.
replace_country(name) == IF name = UKLong THEN UKShort ELSE name

licenses_by_country(df) ==
    {[key |-> replace_country(e.key), count |-> e.count] :
        e \in groupby_nunique(df, "company_country", NaN)}

licenses_by_group(df) == head_sorted(groupby_nunique(df, "group_name", NaN), TopGroups)

licenses_by_year(df) == groupby_nunique(df, "expiration_year", YearNaN)

licenses_by_company(df) == head_sorted(groupby_nunique(df, "company_name", NaN), TopGroups)

prod_service_split(df) == groupby_nunique(df, "product_or_service", NaN)

RowCount(df, col, v) == Cardinality({i \in 1..Len(df.rows) : df.rows[i][col] = v})

\* value_counts().nlargest(n).index of a categorical column: n of its
\* categories that no category left out exceeds in number of rows.
nlargest_index(df, col, cats, n) ==
    IF Cardinality(cats) <= n THEN cats
    ELSE CHOOSE top \in SUBSET cats :
            /\ Cardinality(top) = n
            /\ \A e \in top, o \in cats \ top : RowCount(df, col, e) >= RowCount(df, col, o)

\* Lines 264-271: the rows in the top groups and the top countries.
df_stacked_bar(df, group_cats, country_cats) ==
    LET top_groups == nlargest_index(df, "group_name", group_cats, TopCross)
        top_countries == nlargest_index(df, "company_country", country_cats, TopCross)
    IN  [cols |-> df.cols,
         rows |-> Keep(df.rows, {i \in 1..Len(df.rows) :
                      /\ isin(df.rows[i]["group_name"], top_groups)
                      /\ isin(df.rows[i]["company_country"], top_countries)})]

\* Line 275: groupby(['group_name', 'company_country'], observed=True):
\* one entry per pair of keys that occurs in a row.
licenses_by_group_country(df) ==
    {[key |-> k,
      count |-> nunique(Keep(df.rows, {i \in 1..Len(df.rows) :
                            /\ df.rows[i]["group_name"] = k[1]
                            /\ df.rows[i]["company_country"] = k[2]}), "licence_number")] :
        k \in {<<df.rows[i]["group_name"], df.rows[i]["company_country"]>> : i \in 1..Len(df.rows)}
              \cap ((Values(df, "group_name") \ {NaN}) \X (Values(df, "company_country") \ {NaN}))}

\* Lines 123-126.
compute_kpis(df) ==
    [total_unique_licenses |-> nunique(df.rows, "licence_number"),
     total_unique_companies |-> nunique(df.rows, "company_name"),
     num_countries |-> nunique(df.rows, "company_country"),
     num_groups |-> nunique(df.rows, "group_name")]

\* Lines 146-317: the six aggregations of one render; the cross-tabulation
\* is left out (None) when df_stacked_bar is empty.
None == {[key |-> <<NaN, NaN>>, count |-> 0]}

compute_views(df, original) ==
    LET stacked == df_stacked_bar(df, categories(original, "group_name"),
                                      categories(original, "company_country"))
    IN  [by_country |-> licenses_by_country(df),
         by_group |-> licenses_by_group(df),
         by_year |-> licenses_by_year(df),
         by_company |-> licenses_by_company(df),
         by_group_country |-> IF IsEmpty(stacked) THEN None ELSE licenses_by_group_country(stacked),
         by_product_service |-> prod_service_split(df)]

MsgNotLoaded == Msg("warning", "Data could not be loaded. Dashboard cannot be displayed.", 0)
MsgNoMatch == Msg("warning", "No data matches the current filter criteria.", 0)
MsgNoOverlap == Msg("info", "Not enough data overlap between top groups and top countries for the current filters.", 0)

view_messages(v) == IF v.by_group_country = None THEN {MsgNoOverlap} ELSE {}

----------------------------------------------------------------------------
(* The script *)

Init ==
    /\ file \in Files
    /\ cache = NotCached
    /\ reads = 0
    /\ source = Unset
    /\ served = "none"
    /\ load_messages = {}
    /\ df_original = Unset
    /\ selection = Unset
    /\ df_filtered = Unset
    /\ kpis = Unset
    /\ views = Unset
    /\ page_messages = {}
    /\ status = "init"

\* Mutant: load_data without @st.cache_data, its body run on every call.
cached_load_always(c, f, dtype) ==
    LET res == load_data(f, dtype)
    IN  [df |-> res.df, msgs |-> res.msgs, entry |-> [cached |-> TRUE, df |-> res.df],
         read |-> 1, source |-> f, served |-> "fresh"]

\* @st.cache_data: the body of load_data runs when there is no entry for
\* file_path, and its result is stored; otherwise the entry is returned.
cached_load(c, f, dtype) ==
    IF c = NotCached
    THEN LET res == load_data(f, dtype)
         IN  [df |-> res.df, msgs |-> res.msgs, entry |-> [cached |-> TRUE, df |-> res.df],
              read |-> 1, source |-> f, served |-> "fresh"]
    ELSE [df |-> c.df, msgs |-> load_messages, entry |-> c,
          read |-> 0, source |-> source,
          served |-> IF f = source THEN "fresh" ELSE "stale"]

\* A rerun is triggered by the change of one widget (or of none).
OneWidgetChanged(old, new) ==
    Cardinality({w \in {"countries", "groups", "years"} : old[w] # new[w]}) <= 1

\* Mutant: the KPIs and the views computed without the test of line 121.
Render_unguarded(df, sel) ==
    /\ selection' = sel
    /\ df_filtered' = filter_data(df, sel)
    /\ kpis' = compute_kpis(df_filtered')
    /\ views' = compute_views(df_filtered', df)
    /\ page_messages' = view_messages(views')
    /\ status' = "rendered"

\* Lines 103-139 and the views, once the selection is known.
Render(df, sel) ==
    /\ selection' = sel
    /\ df_filtered' = filter_data(df, sel)
    /\ IF IsEmpty(df_filtered')
       THEN /\ kpis' = Unset
            /\ views' = Unset
            /\ page_messages' = {MsgNoMatch}
            /\ status' = "no_match"
       ELSE /\ kpis' = compute_kpis(df_filtered')
            /\ views' = compute_views(df_filtered', df)
            /\ page_messages' = view_messages(views')
            /\ status' = "rendered"

\* One execution of the script, from line 71 to its end or to st.stop().
RunScript ==
    \E dtype \in LoadOutcomes(file) :
        LET got == cached_load(cache, file, dtype)
        IN  /\ cache' = got.entry
            /\ reads' = reads + got.read
            /\ source' = got.source
            /\ served' = got.served
            /\ load_messages' = got.msgs
            /\ df_original' = got.df
            /\ file' = file
            /\ IF IsEmpty(got.df)
               THEN /\ page_messages' = {MsgNotLoaded}
                    /\ status' = "load_failed"
                    /\ UNCHANGED <<selection, df_filtered, kpis, views>>
               ELSE IF Years(got.df) = {}
               THEN \* int(nan) at line 81 raises ValueError
                    /\ page_messages' = {}
                    /\ status' = "exception"
                    /\ UNCHANGED <<selection, df_filtered, kpis, views>>
               ELSE \E sel \in Selections(got.df) :
                        /\ IF selection = Unset
                           THEN sel = DefaultSelection(got.df)
                           ELSE OneWidgetChanged(selection, sel)
                        /\ Render(got.df, sel)

\* The file at file_path is rewritten outside the program.
ChangeFile ==
    /\ file # Rewritten
    /\ file' = Rewritten
    /\ UNCHANGED <<cache, reads, source, served, load_messages, df_original, selection,
                   df_filtered, kpis, views, page_messages, status>>

Next == RunScript \/ ChangeFile

Spec == Init /\ [][Next]_vars

----------------------------------------------------------------------------
(* Properties *)

Loaded == cache # NotCached

Filtered == status \in {"rendered", "no_match"}

Errors(msgs) == {m \in msgs : m.level = "error"}

Indices(df) == 1..Len(df.rows)

\* The inputs on which loading fails: no file at the path, a read that
\* raises, or a table without one of the required columns (expiration_year
\* is derived from expiration_date).
FailingInput(f) ==
    \/ f.kind \in {"absent", "unreadable"}
    \/ /\ f.kind = "csv"
       /\ ~((required_cols \ {"expiration_year"}) \cup {"expiration_date"} \subseteq f.cols)

\* C1: load_data never raises past its boundary: when the file is absent,
\* the read or the cleaning raises, or a required column is missing, it
\* returns the empty table and emits an error diagnostic; a table it
\* returns with rows has every required column.
C1_FailClosed ==
    Loaded =>
        /\ FailingInput(source) => (cache.df = EmptyTable /\ Errors(load_messages) # {})
        /\ ~IsEmpty(cache.df) => required_cols \subseteq cache.df.cols

C1_Witness ==
    /\ Loaded
    /\ source.kind = "csv"
    /\ "licence_number" \notin source.cols
    /\ Len(source.rows) > 0
    /\ cache.df = EmptyTable
    /\ MsgMissingCols \in load_messages

\* C2: load_data is memoized by path: the file is read at most once, and
\* once there is a cache entry every later call returns that entry, the
\* result of the first call, without another read, whatever the file on
\* disk has become.
C2_Memoized ==
    [][/\ reads' <= 1
       /\ Loaded => (cache' = cache /\ reads' = reads /\ df_original' = cache.df)]_vars

C2_Witness ==
    /\ served = "stale"
    /\ reads = 1
    /\ file # source
    /\ df_original = cache.df
    /\ ~IsEmpty(df_original)
    /\ \A dtype \in LoadOutcomes(file) : df_original # load_data(file, dtype).df

\* C3: no two rows of the table returned by load_data are equal in every
\* field (the parsed expiration_date and expiration_year included).
C3_NoIdenticalRows ==
    Loaded =>
        \A i, j \in Indices(cache.df) : i # j => cache.df.rows[i] # cache.df.rows[j]

\* C4: in every non-empty table returned by load_data each row has an
\* expiration_date that is not missing and an expiration_year equal to the
\* year of that date.
C4_DateInvariant ==
    (Loaded /\ ~IsEmpty(cache.df)) =>
        \A i \in Indices(cache.df) :
            /\ cache.df.rows[i]["expiration_date"] # NaT
            /\ cache.df.rows[i]["expiration_year"] # YearNaN
            /\ cache.df.rows[i]["expiration_year"] = cache.df.rows[i]["expiration_date"].y

\* C5: a row of the cleaned table is in the filtered table if and only if
\* its country is selected or no country is, its group is selected or no
\* group is, and its year lies in the selected range, bounds included.
C5_FilterConjunction ==
    Filtered =>
        \A r \in RowSet(df_original) :
            r \in RowSet(df_filtered) <=>
                /\ (selection.countries = {} \/ r["company_country"] \in selection.countries)
                /\ (selection.groups = {} \/ r["group_name"] \in selection.groups)
                /\ selection.years[1] <= r["expiration_year"]
                /\ r["expiration_year"] <= selection.years[2]

C5_Witness ==
    /\ status = "rendered"
    /\ selection.countries # {}
    /\ selection.groups # {}
    /\ selection.years[1] = selection.years[2]
    /\ \E r \in RowSet(df_original) : r \notin RowSet(df_filtered)

\* C6: filtering with no country selected gives the same table as
\* filtering with every country of the cleaned table selected, and the
\* same for groups.
C6_WildcardLaw ==
    Filtered =>
        /\ selection.countries = {} =>
              df_filtered = filter_data(df_original,
                  [selection EXCEPT !.countries = categories(df_original, "company_country")])
        /\ selection.groups = {} =>
              df_filtered = filter_data(df_original,
                  [selection EXCEPT !.groups = categories(df_original, "group_name")])

\* The licences and the number of rows of the group of rows of the
\* filtered table at the indices idx.
GroupLicences(idx) == {df_filtered.rows[i]["licence_number"] : i \in idx} \ {NaN}

UniqueCountLaw(view, InGroup(_, _)) ==
    \A e \in view :
        LET idx == {i \in Indices(df_filtered) : InGroup(df_filtered.rows[i], e.key)}
        IN  /\ e.count = Cardinality(GroupLicences(idx))
            /\ e.count <= Cardinality(idx)

\* C7: in every by-dimension view the count of a group is the number of
\* distinct licence numbers among the rows of that group, and never more
\* than the number of those rows.
C7_UniqueCountLaw ==
    status = "rendered" =>
        /\ UniqueCountLaw(views.by_country,
              LAMBDA r, k : replace_country(r["company_country"]) = k)
        /\ UniqueCountLaw(views.by_group, LAMBDA r, k : r["group_name"] = k)
        /\ UniqueCountLaw(views.by_year, LAMBDA r, k : r["expiration_year"] = k)
        /\ UniqueCountLaw(views.by_company, LAMBDA r, k : r["company_name"] = k)
        /\ UniqueCountLaw(views.by_product_service, LAMBDA r, k : r["product_or_service"] = k)
        /\ views.by_group_country # None =>
              UniqueCountLaw(views.by_group_country,
                  LAMBDA r, k : r["group_name"] = k[1] /\ r["company_country"] = k[2])

C7_Witness ==
    /\ status = "rendered"
    /\ \E e \in views.by_country :
          /\ e.count = 1
          /\ Cardinality({i \in Indices(df_filtered) :
                 replace_country(df_filtered.rows[i]["company_country"]) = e.key}) = 2
    /\ \E e \in views.by_group : e.count = 1
    /\ views.by_group_country # None

C9_DateDerivationError ==
    (Loaded /\ MsgYearFailed \in load_messages) => cache.df = EmptyTable

\* C10: rendering does not change the cleaned table: the cache entry and
\* df_original are the table load_data made from the file it read, every
\* row of the filtered table is a row of it, and the replacement of the
\* country name is only in the by-country view.
C10_CleanedTableImmutable ==
    Loaded =>
        /\ df_original = cache.df
        /\ \E dtype \in LoadOutcomes(source) : cache.df = load_data(source, dtype).df
        /\ Filtered => RowSet(df_filtered) \subseteq RowSet(df_original)

C10_Witness ==
    /\ status = "rendered"
    /\ \E e \in views.by_country : e.key = UKShort
    /\ \E r \in RowSet(df_filtered) : r["company_country"] = UKLong
    /\ \E r \in RowSet(df_original) : r["company_country"] = UKLong
    /\ selection # DefaultSelection(df_original)

====
